---------------------------- MODULE Spec2Model ----------------------------
(***************************************************************************)
(* A model of aerospacetoolbox.py: flowisentropic, flownormalshock and     *)
(* atmosisa.                                                               *)
(*                                                                         *)
(* Numbers.  The program computes in float64 arrays.  A float is modelled  *)
(* as a decimal floating point number <<m, e>> of value m * 10^e with a    *)
(* six digit mantissa (MantLo <= |m| < MantHi), zero being <<0, 0>>, and   *)
(* with the three special values PInf, NInf and NaN.  Every operation      *)
(* rounds its result to six digits, overflows to an infinity above         *)
(* 10^ExpMax and flushes to zero below 10^-ExpMax.  Division by zero,      *)
(* inf - inf, sqrt of a negative and the like give what numpy gives (an    *)
(* infinity or NaN, never an exception).                                   *)
(*                                                                         *)
(* Arrays.  An ndarray is a record [shape, data]: shape is the sequence    *)
(* of its dimensions (<<>> for a Python scalar) and data the sequence of   *)
(* its elements in flat order.                                            *)
(***************************************************************************)
EXTENDS Integers, Sequences, FiniteSets, TLC

(***************************************************************************)
(* float64, at six significant decimal digits                              *)
(***************************************************************************)
MantLo == 100000
MantHi == 1000000
ExpMax == 300

Zero == <<0, 0>>
PInf == <<1, 9999>>
NInf == <<-1, 9999>>
NaN  == <<0, 9999>>
One == <<100000, -5>>
Two == <<200000, -5>>

IsNaN(x) == x = NaN
IsInf(x) == x \in {PInf, NInf}
IsFinite(x) == x[2] # 9999
IsZero(x) == x = Zero

AbsI(n) == IF n < 0 THEN -n ELSE n
SgnI(n) == IF n < 0 THEN -1 ELSE IF n > 0 THEN 1 ELSE 0

Pow10(k) == 10 ^ (IF k > 9 THEN 9 ELSE k)

\* the number of decimal digits of a > 0
RECURSIVE NDigits(_)
NDigits(a) == IF a < 10 THEN 1 ELSE 1 + NDigits(a \div 10)

\* a / 10^k rounded to nearest, halves away from zero (a >= 0)
RoundDiv(a, k) == IF k = 0 THEN a ELSE (a + 5 * Pow10(k - 1)) \div Pow10(k)

\* the float of sign s, six digits r and exponent e; overflow gives an
\* infinity, underflow zero
Pack(s, r, e) ==
  IF e + 5 > ExpMax THEN (IF s < 0 THEN NInf ELSE PInf)
  ELSE IF e + 5 < -ExpMax THEN Zero
  ELSE <<s * r, e>>

\* the same for digits r that rounding may have carried to 10^6
Carry(s, r, e) == IF r >= MantHi THEN Pack(s, MantLo, e + 1) ELSE Pack(s, r, e)

\* the float nearest to m * 10^e, for an integer m # 0 of n digits
NormDigits(m, e, n) ==
  Carry(SgnI(m),
        IF n > 6 THEN RoundDiv(AbsI(m), n - 6) ELSE AbsI(m) * Pow10(6 - n),
        e + (n - 6))

\* the float nearest to m * 10^e, for any integer |m| < 2 * 10^9
Norm(m, e) == IF m = 0 THEN Zero ELSE NormDigits(m, e, NDigits(AbsI(m)))

\* the decimal literal n * 10^-k (Dec(14, 1) is 1.4)
Dec(n, k) == Norm(n, -k)

FNeg(x) == IF IsNaN(x) THEN NaN ELSE IF IsZero(x) THEN Zero ELSE <<-x[1], x[2]>>
FSign(x) == IF IsNaN(x) THEN 0 ELSE SgnI(x[1])
FAbs(x) == IF FSign(x) < 0 THEN FNeg(x) ELSE x

\* x < y; every comparison with NaN is false
FLt(x, y) ==
  IF IsNaN(x) \/ IsNaN(y) THEN FALSE
  ELSE IF FSign(x) # FSign(y) THEN FSign(x) < FSign(y)
  ELSE IF FSign(x) = 0 THEN FALSE
  ELSE IF FSign(x) > 0
       THEN x[2] < y[2] \/ (x[2] = y[2] /\ x[1] < y[1])
       ELSE x[2] > y[2] \/ (x[2] = y[2] /\ x[1] < y[1])
FEq(x, y) == ~IsNaN(x) /\ ~IsNaN(y) /\ x = y
FLe(x, y) == FLt(x, y) \/ FEq(x, y)
FGt(x, y) == FLt(y, x)
FGe(x, y) == FLe(y, x)
FNe(x, y) == ~FEq(x, y)

\* floor(a * b / 10^4) for six-digit a and b, in 32-bit steps
MulDigits(a, b) == (a * (b \div 1000) + ((a * (b % 1000)) \div 1000)) \div 10

FMul(x, y) ==
  IF IsNaN(x) \/ IsNaN(y) THEN NaN
  ELSE IF IsInf(x) \/ IsInf(y)
       THEN (IF IsZero(x) \/ IsZero(y) THEN NaN
             ELSE IF FSign(x) * FSign(y) < 0 THEN NInf ELSE PInf)
  ELSE IF IsZero(x) \/ IsZero(y) THEN Zero
  ELSE Norm(SgnI(x[1]) * SgnI(y[1]) * MulDigits(AbsI(x[1]), AbsI(y[1])),
            x[2] + y[2] + 4)

\* floor(a * 10^7 / b) for six-digit a and b, by long division: q holds the
\* digits found, r the remainder, and 1000, 1000 and 10 are brought down
RECURSIVE DivDigits(_, _, _, _)
DivDigits(q, r, b, step) ==
  IF step = 3 THEN q
  ELSE DivDigits(q * (IF step = 2 THEN 10 ELSE 1000)
                   + (r * (IF step = 2 THEN 10 ELSE 1000)) \div b,
                 (r * (IF step = 2 THEN 10 ELSE 1000)) % b, b, step + 1)

FDiv(x, y) ==
  IF IsNaN(x) \/ IsNaN(y) THEN NaN
  ELSE IF IsInf(x) THEN (IF IsInf(y) THEN NaN
                         ELSE IF FSign(x) * (IF FSign(y) < 0 THEN -1 ELSE 1) < 0
                              THEN NInf ELSE PInf)
  ELSE IF IsInf(y) THEN Zero
  ELSE IF IsZero(y) THEN (IF IsZero(x) THEN NaN
                          ELSE IF FSign(x) < 0 THEN NInf ELSE PInf)
  ELSE IF IsZero(x) THEN Zero
  ELSE Norm(SgnI(x[1]) * SgnI(y[1]) * DivDigits(0, AbsI(x[1]), AbsI(y[1]), 0),
            x[2] - y[2] - 7)

\* hi + lo for finite non-zero floats with hi[2] >= lo[2], d the difference
\* of the exponents: both are aligned on hi's exponent less 3
AddAligned(hi, lo, d) ==
  Norm(hi[1] * 1000
         + (IF d <= 3 THEN lo[1] * Pow10(3 - d)
            ELSE IF d <= 9 THEN SgnI(lo[1]) * RoundDiv(AbsI(lo[1]), d - 3)
            ELSE 0),
       hi[2] - 3)

FAdd(x, y) ==
  IF IsNaN(x) \/ IsNaN(y) THEN NaN
  ELSE IF IsInf(x) THEN (IF IsInf(y) /\ x # y THEN NaN ELSE x)
  ELSE IF IsInf(y) THEN y
  ELSE IF IsZero(x) THEN y
  ELSE IF IsZero(y) THEN x
  ELSE IF x[2] >= y[2] THEN AddAligned(x, y, x[2] - y[2])
  ELSE AddAligned(y, x, y[2] - x[2])

FSub(x, y) == FAdd(x, FNeg(y))

\* the largest integer r with r * r <= n, for 0 <= n < 10^8, between lo and hi
RECURSIVE ISqrtB(_, _, _)
ISqrtB(n, lo, hi) ==
  IF lo >= hi THEN lo
  ELSE IF ((lo + hi + 1) \div 2) * ((lo + hi + 1) \div 2) <= n
       THEN ISqrtB(n, (lo + hi + 1) \div 2, hi)
       ELSE ISqrtB(n, lo, ((lo + hi + 1) \div 2) - 1)

\* Heron's iteration for sqrt(x): steps more updates of the estimate r
RECURSIVE SqrtSteps(_, _, _)
SqrtSteps(x, r, steps) ==
  IF steps = 0 THEN r
  ELSE SqrtSteps(x, FDiv(FAdd(r, FDiv(x, r)), Two), steps - 1)

FSqrt(x) ==
  IF IsNaN(x) \/ FSign(x) < 0 THEN NaN
  ELSE IF x = PInf THEN PInf
  ELSE IF IsZero(x) THEN Zero
  ELSE SqrtSteps(x,
                 IF x[2] % 2 # 0
                 THEN Norm(ISqrtB(x[1] * 10, 0, 3200), (x[2] - 1) \div 2)
                 ELSE Norm(ISqrtB(x[1], 0, 3200), x[2] \div 2),
                 2)

\* the integer a finite float of integer value holds (|x| < 2 * 10^9)
IsIntF(x) ==
  /\ IsFinite(x)
  /\ \/ IsZero(x)
     \/ (x[2] >= 0 /\ x[2] <= 3)
     \/ (x[2] < 0 /\ x[2] >= -5 /\ x[1] % Pow10(-x[2]) = 0)
FToInt(x) ==
  IF IsZero(x) THEN 0
  ELSE IF x[2] >= 0 THEN x[1] * Pow10(x[2])
  ELSE x[1] \div Pow10(-x[2])
\* the integer nearest to a finite float of magnitude below 10^4
FRound(x) ==
  IF IsZero(x) \/ x[2] < -6 THEN 0
  ELSE IF x[2] >= 0 THEN x[1] * Pow10(x[2])
  ELSE SgnI(x[1]) * RoundDiv(AbsI(x[1]), -x[2])
IntF(n) == Norm(n, 0)

\* x^n for an integer n >= 0, by squaring
RECURSIVE FPowI(_, _)
FPowI(x, n) ==
  IF n = 0 THEN One
  ELSE IF n = 1 THEN x
  ELSE IF n % 2 = 1 THEN FMul(x, FPowI(x, n - 1))
  ELSE FPowI(FMul(x, x), n \div 2)

\* 1, 1/3, 1/5, 1/7, 1/9, 1/11
AtanhCoef ==
  <<One, <<333333, -6>>, <<200000, -6>>, <<142857, -6>>, <<111111, -6>>,
    <<909091, -7>>>>

\* c[k] + w (c[k+1] + w (... + w c[6]))
RECURSIVE AtanhSum(_, _)
AtanhSum(w, k) ==
  IF k = 6 THEN AtanhCoef[k]
  ELSE FAdd(AtanhCoef[k], FMul(w, AtanhSum(w, k + 1)))

\* 2 atanh(z) = 2 z (1 + z^2/3 + z^4/5 + ...)
Atanh2(z) == FMul(Two, FMul(z, AtanhSum(FMul(z, z), 1)))

\* log(u) for 0.75 <= u < 1.5, as 2 atanh((u-1)/(u+1))
LnSeries(u) == Atanh2(FDiv(FSub(u, One), FAdd(u, One)))

Ln2 == <<693147, -6>>
Ln10 == <<230259, -5>>

\* the k in 0..3 with 0.75 <= m / 2^k < 1.5, for a mantissa m of 1 <= m < 10
LnShift(m) ==
  IF m < 150000 THEN 0 ELSE IF m < 300000 THEN 1 ELSE IF m < 600000 THEN 2 ELSE 3

\* log(x) = e10 log(10) + k log(2) + log(u)
LnParts(e10, k, u) ==
  FAdd(FAdd(FMul(IntF(e10), Ln10), FMul(IntF(k), Ln2)), LnSeries(u))

FLn(x) ==
  IF IsNaN(x) \/ FSign(x) < 0 THEN NaN
  ELSE IF IsZero(x) THEN NInf
  ELSE IF x = PInf THEN PInf
  ELSE IF FGe(x, <<750000, -6>>) /\ FLt(x, <<150000, -5>>) THEN LnParts(0, 0, x)
  ELSE LnParts(x[2] + 5, LnShift(x[1]),
               FDiv(<<x[1], -5>>, IntF(2 ^ LnShift(x[1]))))

\* 1 + r/n (1 + r/(n+1) (... (1 + r/9)))
RECURSIVE ExpSum(_, _)
ExpSum(r, n) ==
  IF n = 10 THEN One
  ELSE FAdd(One, FMul(FDiv(r, IntF(n)), ExpSum(r, n + 1)))

\* e^r for |r| <= 0.35, by its Taylor series
ExpSeries(r) == ExpSum(r, 1)

\* e^x = 2^k e^r with r = x - k log(2), log(2) taken in three pieces
ExpScaled(x, k) ==
  IF k >= 0
  THEN FMul(ExpSeries(FSub(FSub(FSub(x, FMul(IntF(k), <<693000, -6>>)),
                                FMul(IntF(k), <<147000, -9>>)),
                           FMul(IntF(k), <<180560, -12>>))),
            FPowI(Two, k))
  ELSE FDiv(ExpSeries(FSub(FSub(FSub(x, FMul(IntF(k), <<693000, -6>>)),
                                FMul(IntF(k), <<147000, -9>>)),
                           FMul(IntF(k), <<180560, -12>>))),
            FPowI(Two, -k))

FExp(x) ==
  IF IsNaN(x) THEN NaN
  ELSE IF x = PInf THEN PInf
  ELSE IF x = NInf THEN Zero
  ELSE IF FGt(x, <<700000, -3>>) THEN PInf
  ELSE IF FLt(x, <<-700000, -3>>) THEN Zero
  ELSE ExpScaled(x, FRound(FDiv(x, Ln2)))

\* b^n for an integer n # 0
PowSigned(b, n) == IF n > 0 THEN FPowI(b, n) ELSE FDiv(One, FPowI(b, -n))

\* x ** y for x > 0 finite and y no integer, y2 = 2 y
PowReal(x, y, y2) ==
  IF IsIntF(y2) /\ AbsI(FToInt(y2)) <= 64 THEN PowSigned(FSqrt(x), FToInt(y2))
  ELSE FExp(FMul(y, FLn(x)))

\* x ** y
FPow(x, y) ==
  IF IsZero(y) THEN One
  ELSE IF x = One THEN One
  ELSE IF IsNaN(x) \/ IsNaN(y) THEN NaN
  ELSE IF IsIntF(y) /\ AbsI(FToInt(y)) <= 64 THEN PowSigned(x, FToInt(y))
  ELSE IF FSign(x) < 0 THEN NaN
  ELSE IF IsZero(x) THEN (IF FSign(y) > 0 THEN Zero ELSE PInf)
  ELSE IF x = PInf THEN (IF FSign(y) > 0 THEN PInf ELSE Zero)
  ELSE PowReal(x, y, FMul(Two, y))


(***************************************************************************)
(* ndarrays                                                                *)
(***************************************************************************)
RECURSIVE ShapeSize(_)
ShapeSize(s) == IF s = <<>> THEN 1 ELSE s[1] * ShapeSize(Tail(s))

\* sp.array(x, sp.float64, ndmin=1)
AsArray(v) == IF v.shape = <<>> THEN [shape |-> <<1>>, data |-> v.data] ELSE v
Size(a) == Len(a.data)
\* (boolean array).any()
AnyOf(s) == \E k \in DOMAIN s : s[k]

\* lines 100-107 (and 205-212): the shape check and the broadcast of a size one
\* input to the shape of the other; g and f are the ndmin=1 arrays
ShapesDiffer(g, f) == Size(g) > 1 /\ Size(f) > 1 /\ g.shape # f.shape
BroadcastShape(g, f) == IF Size(g) > Size(f) THEN g.shape ELSE f.shape
Broadcast(x, n) ==
  IF Len(x.data) = 1 THEN [k \in 1..ShapeSize(n) |-> x.data[1]] ELSE x.data

(***************************************************************************)
(* flowisentropic                                                          *)
(***************************************************************************)
MsgGamma == "Specific heat ratio inputs must be real numbers greater than 1."
MsgShape == "Inputs must be same shape or at least one input must be scalar."
MsgMode == "Third input must be an acceptable string to select second input parameter."
MsgMach == "Mach number inputs must be real numbers greater than 0."
MsgTemp == "Temperature ratio inputs must be real numbers 0 <= T <= 1."
MsgPres == "Pressure ratio inputs must be real numbers 0 <= P <= 1."
MsgDens == "Density ratio inputs must be real numbers 0 <= rho <= 1."
MsgArea == "Area ratio inputs must be real numbers greater than or equal to 1."

\* raise Exception(msg): every failure of the module raises the builtin class
Raise(msg) == [kind |-> "raise", exc |-> "Exception", msg |-> msg]

\* the gamma-ratios of lines 110-112
RatioA(gamma) == FDiv(FAdd(gamma, One), Two)
RatioB(gamma) == FDiv(FSub(gamma, One), Two)
RatioC(gamma) == FDiv(RatioA(gamma), FSub(gamma, One))

\* the closed form inverses of lines 125-136, for one element
MachFromTemp(gamma, flow) ==
  IF FEq(flow, Zero) THEN PInf
  ELSE FSqrt(FMul(FDiv(One, RatioB(gamma)), FSub(FPow(flow, IntF(-1)), One)))
MachFromPres(gamma, flow) ==
  IF FEq(flow, Zero) THEN PInf
  ELSE FSqrt(FMul(FDiv(One, RatioB(gamma)),
                  FSub(FPow(flow, FDiv(FSub(gamma, One), FNeg(gamma))), One)))
MachFromDens(gamma, flow) ==
  IF FEq(flow, Zero) THEN PInf
  ELSE FSqrt(FMul(FDiv(One, RatioB(gamma)),
                  FSub(FPow(flow, FDiv(FSub(gamma, One), IntF(-1))), One)))

\* one Newton-Raphson update of lines 143-146, for one element
NewtonUpdate(gamma, flow, Mk) ==
  LET a == RatioA(gamma)
      b == RatioB(gamma)
      c == RatioC(gamma)
      K == FPow(Mk, Two)
      d == FAdd(One, FMul(b, K))
      f == FAdd(FNeg(flow), FDiv(FMul(FPow(a, FNeg(c)), FPow(d, c)), Mk))
      g == FDiv(FMul(FMul(FPow(a, FNeg(c)), FPow(d, FSub(c, One))),
                     FSub(FMul(FMul(b, FSub(FMul(Two, c), One)), K), One)), K)
  IN FSub(Mk, FDiv(f, g))

\* the forward relations of lines 162-170 and 177-188, for one element
IsenD(gamma, Mk) == FAdd(One, FMul(RatioB(gamma), FPow(Mk, Two)))
IsenT(gamma, Mk) == FPow(IsenD(gamma, Mk), IntF(-1))
IsenP(gamma, Mk) == FPow(IsenD(gamma, Mk), FDiv(FNeg(gamma), FSub(gamma, One)))
IsenRho(gamma, Mk) == FPow(IsenD(gamma, Mk), FDiv(IntF(-1), FSub(gamma, One)))
AreaRelation(gamma, Mk) ==
  FDiv(FMul(FPow(RatioA(gamma), FNeg(RatioC(gamma))),
            FPow(IsenD(gamma, Mk), RatioC(gamma))), Mk)
\* variant: the scalar branch without its test for an infinite Mach number
AreaScalar_NoInfTest(gamma, Mk) ==
  IF FEq(Mk, Zero) THEN PInf ELSE AreaRelation(gamma, Mk)
\* lines 168-170: the single value branch
AreaScalar(gamma, Mk) ==
  IF IsInf(Mk) THEN Zero
  ELSE IF FEq(Mk, Zero) THEN PInf
  ELSE AreaRelation(gamma, Mk)
\* lines 183-188: the ndarray branch
AreaArray(gamma, Mk) ==
  IF FNe(Mk, Zero) /\ ~IsInf(Mk) THEN AreaRelation(gamma, Mk)
  ELSE IF FEq(Mk, Zero) THEN PInf
  ELSE Zero

\* the mode strings of lines 118-137
ModeMach == {"mach", "m"}
ModeTemp == {"temp", "t"}
ModePres == {"pres", "p"}
ModeDens == {"dens", "d", "rho"}
ModeArea == {"sub", "sup"}

\* variant: the ratio modes test only the lower bound
IsenDomainError_NoUpperBound(mtype, flow) ==
  LET below0 == AnyOf([k \in DOMAIN flow |-> FLt(flow[k], Zero)])
      below1 == AnyOf([k \in DOMAIN flow |-> FLt(flow[k], One)])
  IN IF mtype \in ModeMach THEN (IF below0 THEN MsgMach ELSE "")
     ELSE IF mtype \in ModeTemp THEN (IF below0 THEN MsgTemp ELSE "")
     ELSE IF mtype \in ModePres THEN (IF below0 THEN MsgPres ELSE "")
     ELSE IF mtype \in ModeDens THEN (IF below0 THEN MsgDens ELSE "")
     ELSE IF mtype \in ModeArea THEN (IF below1 THEN MsgArea ELSE "")
     ELSE MsgMode
\* the domain checks of lines 119, 123, 128, 133 and 138 on the whole array
\* ("" when the mode is none of the branches)
IsenDomainError(mtype, flow) ==
  LET below0 == AnyOf([k \in DOMAIN flow |-> FLt(flow[k], Zero)])
      above1 == AnyOf([k \in DOMAIN flow |-> FGt(flow[k], One)])
      below1 == AnyOf([k \in DOMAIN flow |-> FLt(flow[k], One)])
  IN IF mtype \in ModeMach THEN (IF below0 THEN MsgMach ELSE "")
     ELSE IF mtype \in ModeTemp THEN (IF below0 \/ above1 THEN MsgTemp ELSE "")
     ELSE IF mtype \in ModePres THEN (IF below0 \/ above1 THEN MsgPres ELSE "")
     ELSE IF mtype \in ModeDens THEN (IF below0 \/ above1 THEN MsgDens ELSE "")
     ELSE IF mtype \in ModeArea THEN (IF below1 THEN MsgArea ELSE "")
     ELSE MsgMode

\* lines 121-141: the Mach array each branch leaves before the Newton loop
IsenInitialM(mtype, gamma, flow) ==
  [k \in DOMAIN flow |->
     IF mtype \in ModeMach THEN flow[k]
     ELSE IF mtype \in ModeTemp THEN MachFromTemp(gamma[k], flow[k])
     ELSE IF mtype \in ModePres THEN MachFromPres(gamma[k], flow[k])
     ELSE IF mtype \in ModeDens THEN MachFromDens(gamma[k], flow[k])
     ELSE IF mtype = "sub" THEN Dec(2, 1)
     ELSE Dec(18, 1)]

\* variant: the iterate is returned as the loop left it
ForceSonic_Skipped(flow, Mv) == Mv
\* line 147: M[flow == 1] = 1
ForceSonic(flow, Mv) ==
  [k \in DOMAIN Mv |-> IF FEq(flow[k], One) THEN One ELSE Mv[k]]

\* variant: no flattening of a single element
OutShape_Kept(nshape, Mv) == nshape
\* line 152 (and 256, 356): a result of a single element is flattened to a scalar
OutShape(nshape, Mv) == IF Len(Mv) = 1 THEN <<>> ELSE nshape

\* lines 151-190: the returned tuple (M, T, P, rho, area)
IsenReturn(nshape, gamma, Mv) ==
  [kind |-> "return",
   shape |-> OutShape(nshape, Mv),
   M |-> Mv,
   T |-> [k \in DOMAIN Mv |-> IsenT(gamma[k], Mv[k])],
   P |-> [k \in DOMAIN Mv |-> IsenP(gamma[k], Mv[k])],
   rho |-> [k \in DOMAIN Mv |-> IsenRho(gamma[k], Mv[k])],
   area |-> [k \in DOMAIN Mv |->
               IF Len(Mv) = 1 THEN AreaScalar(gamma[k], Mv[k])
               ELSE AreaArray(gamma[k], Mv[k])]]

(***************************************************************************)
(* flownormalshock                                                         *)
(***************************************************************************)
MsgShockMach == "Mach number inputs must be real numbers greater than 1."
MsgShockDown == "Mach number downstream inputs must be real numbers SQRT((GAMMA-1)/(2*GAMMA)) <= M <= 1."
MsgShockPres == "Pressure ratio inputs must be real numbers greater than or equal to 1."
MsgShockDens == "Density ratio inputs must be real numbers 1 <= M <= (GAMMA+1)/(GAMMA-1)."
\* numpy's own failure of a boolean mask assignment x[mask] = values whose
\* values are neither one nor as many as the mask selects
MsgMask == "NumPy boolean array indexing assignment cannot assign the input values to the output values where the mask is true"

ShockMach == {"mach", "m1", "m"}
ShockDown == {"down", "mach2", "m2", "md"}
ShockPres == {"pres", "p"}
ShockDens == {"dens", "d", "rho"}

\* line 217
ShockC(gamma) == FDiv(gamma, FSub(gamma, One))
\* line 228
LowerBound(gamma) == FSqrt(FDiv(FSub(gamma, One), FMul(Two, gamma)))
\* line 238
UpperBound(gamma) == FDiv(FAdd(gamma, One), FSub(gamma, One))

\* the domain checks of lines 224, 229, 234 and 239
ShockDomainError(mtype, gamma, flow) ==
  LET below1 == AnyOf([k \in DOMAIN flow |-> FLt(flow[k], One)])
      above1 == AnyOf([k \in DOMAIN flow |-> FGt(flow[k], One)])
      belowLb == AnyOf([k \in DOMAIN flow |-> FLt(flow[k], LowerBound(gamma[k]))])
      aboveUb == AnyOf([k \in DOMAIN flow |-> FGt(flow[k], UpperBound(gamma[k]))])
  IN IF mtype \in ShockMach THEN (IF below1 THEN MsgShockMach ELSE "")
     ELSE IF mtype \in ShockDown THEN (IF belowLb \/ above1 THEN MsgShockDown ELSE "")
     ELSE IF mtype \in ShockPres THEN (IF below1 THEN MsgShockPres ELSE "")
     ELSE IF mtype \in ShockDens THEN (IF below1 \/ aboveUb THEN MsgShockDens ELSE "")
     ELSE MsgMode

\* the right hand sides of lines 232, 236 and 242, for one element
UpstreamFromDown(gamma, flow) ==
  FSqrt(FDiv(FAdd(One, FMul(RatioB(gamma), FPow(flow, Two))),
             FSub(FMul(gamma, FPow(flow, Two)), RatioB(gamma))))
UpstreamFromPres(gamma, flow) ==
  FSqrt(FAdd(FDiv(FMul(FSub(flow, One), FAdd(gamma, One)), FMul(Two, gamma)), One))
UpstreamFromDens(gamma, flow) ==
  FSqrt(FDiv(FMul(Two, flow),
             FSub(FAdd(FAdd(One, gamma), flow), FMul(flow, gamma))))

\* lines 231-232 and 241-242: M[onbound] = inf, then M[~onbound] = values, where
\* values is the whole array and not its masked part: numpy accepts the second
\* assignment only when the mask selects every element or the array has one
\* element (a single value is broadcast); onbound is the first mask
MaskAssignFails(onbound) ==
  Len(onbound) > 1 /\ AnyOf(onbound)

\* lines 223-242: the upstream Mach array, for inputs that passed the checks
ShockInitialM(mtype, gamma, flow) ==
  [k \in DOMAIN flow |->
     IF mtype \in ShockMach THEN flow[k]
     ELSE IF mtype \in ShockDown
          THEN (IF FLe(flow[k], LowerBound(gamma[k])) THEN PInf
                ELSE UpstreamFromDown(gamma[k], flow[k]))
     ELSE IF mtype \in ShockPres THEN UpstreamFromPres(gamma[k], flow[k])
     ELSE (IF FGe(flow[k], UpperBound(gamma[k])) THEN PInf
           ELSE UpstreamFromDens(gamma[k], flow[k]))]

\* the first mask of the down and dens branches (empty for the other modes)
ShockOnBound(mtype, gamma, flow) ==
  [k \in DOMAIN flow |->
     IF mtype \in ShockDown THEN FLe(flow[k], LowerBound(gamma[k]))
     ELSE IF mtype \in ShockDens
          THEN FGe(flow[k], UpperBound(gamma[k]))
     ELSE FALSE]

\* the right hand side of lines 232 and 242 as numpy evaluates it: over the
\* whole array, the elements on the bound included (their quotient is x/0)
ShockFormulaM(mtype, gamma, flow) ==
  [k \in DOMAIN flow |->
     IF mtype \in ShockDown THEN UpstreamFromDown(gamma[k], flow[k])
     ELSE UpstreamFromDens(gamma[k], flow[k])]

\* lines 232 and 242 where the library does not reject the assignment: a
\* one-dimensional masked assignment that is handed more values than the mask
\* selects was, in the numpy releases before the size check, filled through the
\* flat iterator, the j-th selected element taking the j-th value of the right
\* hand side; arrays of two or more dimensions were broadcast and rejected
MaskAssignInOrder(nshape) == Len(nshape) = 1
SequentialFill(onbound, values) ==
  [k \in DOMAIN values |->
     IF onbound[k] THEN PInf
     ELSE values[Cardinality({j \in 1..k : ~onbound[j]})]]
ShockSequentialM(mtype, gamma, flow) ==
  SequentialFill(ShockOnBound(mtype, gamma, flow), ShockFormulaM(mtype, gamma, flow))

\* M after lines 223-242, on a path where no assignment was rejected
ShockAssignedM(mtype, gamma, flow) ==
  IF MaskAssignFails(ShockOnBound(mtype, gamma, flow))
  THEN ShockSequentialM(mtype, gamma, flow)
  ELSE ShockInitialM(mtype, gamma, flow)

\* the normal shock relations of lines 248-253, for one element
ShockM2(gamma, Mk) ==
  FSqrt(FDiv(FAdd(One, FMul(RatioB(gamma), FPow(Mk, Two))),
             FSub(FMul(gamma, FPow(Mk, Two)), RatioB(gamma))))
ShockRho(gamma, Mk) ==
  FDiv(FMul(FAdd(gamma, One), FPow(Mk, Two)),
       FAdd(Two, FMul(FSub(gamma, One), FPow(Mk, Two))))
ShockP(gamma, Mk) ==
  FAdd(One, FDiv(FMul(FSub(FPow(Mk, Two), One), gamma), RatioA(gamma)))
ShockT(gamma, Mk) == FDiv(ShockP(gamma, Mk), ShockRho(gamma, Mk))
ShockP0(gamma, Mk) ==
  FMul(ShockP(gamma, Mk), FPow(ShockT(gamma, Mk), FNeg(ShockC(gamma))))
ShockP1(gamma, Mk) ==
  FDiv(FMul(FPow(FDiv(FMul(FPow(RatioA(gamma), Two), FPow(Mk, Two)),
                      FSub(FMul(gamma, FPow(Mk, Two)), RatioB(gamma))),
                 ShockC(gamma)),
            FAdd(FSub(One, gamma), FMul(FMul(Two, gamma), FPow(Mk, Two)))),
       FAdd(gamma, One))

\* lines 246-265: the returned tuple (M, M2, T, P, rho, P0, P1)
ShockReturn(nshape, gamma, Mv) ==
  [kind |-> "return",
   shape |-> OutShape(nshape, Mv),
   M |-> Mv,
   M2 |-> [k \in DOMAIN Mv |-> ShockM2(gamma[k], Mv[k])],
   T |-> [k \in DOMAIN Mv |-> ShockT(gamma[k], Mv[k])],
   P |-> [k \in DOMAIN Mv |-> ShockP(gamma[k], Mv[k])],
   rho |-> [k \in DOMAIN Mv |-> ShockRho(gamma[k], Mv[k])],
   P0 |-> [k \in DOMAIN Mv |-> ShockP0(gamma[k], Mv[k])],
   P1 |-> [k \in DOMAIN Mv |-> ShockP1(gamma[k], Mv[k])]]

(***************************************************************************)
(* atmosisa                                                                *)
(***************************************************************************)
MsgHeight == "Height input must be real numbers."

\* lines 306-308 and the defaults of line 267 (Re is held to six digits)
GasR == Dec(287053, 3)
Grav == Dec(980665, 5)
Re == Dec(6356766, 0)
T0 == Dec(28815, 2)
P0 == Dec(101325, 0)
NumLayers == 7

\* lines 319-320, indexed from 0 as in the source
Hb(j) ==
  FMul(CASE j = 0 -> Zero [] j = 1 -> Dec(11, 0) [] j = 2 -> Dec(20, 0)
         [] j = 3 -> Dec(32, 0) [] j = 4 -> Dec(47, 0) [] j = 5 -> Dec(51, 0)
         [] j = 6 -> Dec(71, 0) [] OTHER -> Dec(84852, 3),
       Dec(1000, 0))
\* variant: an isothermal seventh layer
Lr_Isothermal(j) ==
  FMul(CASE j = 0 -> Dec(-65, 1) [] j = 1 -> Zero [] j = 2 -> One
         [] j = 3 -> Dec(28, 1) [] j = 4 -> Zero [] j = 5 -> Dec(-28, 1)
         [] OTHER -> Zero,
       Dec(1, 3))
Lr(j) ==
  FMul(CASE j = 0 -> Dec(-65, 1) [] j = 1 -> Zero [] j = 2 -> One
         [] j = 3 -> Dec(28, 1) [] j = 4 -> Zero [] j = 5 -> Dec(-28, 1)
         [] OTHER -> Dec(-20, 1),
       Dec(1, 3))

\* line 314: h *= Re / (Re + h)
ToGeopotential(hk) == FMul(hk, FDiv(Re, FAdd(Re, hk)))

\* lines 333-334: the altitudes layer j is applied to
LayerSelect(j, hv) ==
  [k \in DOMAIN hv |-> IF j = 0 THEN FGt(hv[k], NInf) ELSE FGt(hv[k], Hb(j))]

\* lines 341-342 and 347-348: layer j at the altitude hk, from its base (tb, pb)
LayerT(j, tb, hk) ==
  IF FEq(Lr(j), Zero) THEN tb
  ELSE FAdd(tb, FMul(Lr(j), FSub(hk, Hb(j))))
LayerP(j, tb, pb, hk) ==
  IF FEq(Lr(j), Zero)
  THEN FMul(pb, FExp(FMul(FDiv(FNeg(Grav), FMul(GasR, tb)), FSub(hk, Hb(j)))))
  ELSE FMul(pb, FPow(FDiv(LayerT(j, tb, hk), tb),
                     FDiv(FNeg(Grav), FMul(Lr(j), GasR))))

\* variant: the base temperature is not advanced
NextTb_Stale(j, tb) == tb
\* lines 345 and 351-353: the base of the next layer
NextTb(j, tb) ==
  IF FEq(Lr(j), Zero) THEN tb
  ELSE FAdd(tb, FMul(Lr(j), FSub(Hb(j + 1), Hb(j))))
NextPb(j, tb, pb) ==
  IF FEq(Lr(j), Zero)
  THEN FMul(pb, FExp(FMul(FDiv(FNeg(Grav), FMul(GasR, tb)),
                          FSub(Hb(j + 1), Hb(j)))))
  ELSE FMul(pb, FPow(FDiv(NextTb(j, tb), tb),
                     FDiv(FNeg(Grav), FMul(Lr(j), GasR))))

\* lines 355-360: the returned tuple (T, a, P, rho)
AtmosReturn(hshape, Tv, Pv) ==
  [kind |-> "return",
   shape |-> OutShape(hshape, Tv),
   T |-> Tv,
   a |-> [k \in DOMAIN Tv |-> FSqrt(FMul(FMul(Dec(14, 1), GasR), Tv[k]))],
   P |-> Pv,
   rho |-> [k \in DOMAIN Tv |-> FDiv(Pv[k], FMul(GasR, Tv[k]))]]

(***************************************************************************)
(* The state: one call at a time.  pc is the position of the call in       *)
(* progress ("idle": none; "newton": in the loop of line 142; "layers": in *)
(* the loop of line 331; "done": it returned or raised, result holds the   *)
(* outcome).  gamma, flow, nshape, M and i are the locals of flowisentropic *)
(* and flownormalshock; h, Tb, Pb, T, P and i those of atmosisa.           *)
(* AETB_iternum is the module global of line 18.  updates counts the       *)
(* executions of line 146 in the call, and origin holds the Mach array of  *)
(* the call whose output is being fed back in (<<>> otherwise).            *)
(***************************************************************************)
VARIABLES pc, call, gamma, flow, nshape, M, i, updates, origin,
          h, Tb, Pb, T, P, result, AETB_iternum

vars == <<pc, call, gamma, flow, nshape, M, i, updates, origin,
          h, Tb, Pb, T, P, result, AETB_iternum>>

IterNum == 10

\* the largest number of elements of an input array
MaxLen == 2

Scalar(x) == [shape |-> <<>>, data |-> <<x>>]
Vector(d) == [shape |-> <<Len(d)>>, data |-> d]
Row(d) == [shape |-> <<1, Len(d)>>, data |-> d]
SeqsOver(S, lo) == UNION {[1..len -> S] : len \in lo..MaxLen}

GammaVals == {Dec(75, 2), One, Dec(14, 1), Two}
GammaArrVals == {One, Dec(14, 1), Two}
GammaInputs ==
  {Scalar(x) : x \in GammaVals} \cup {Vector(<<Dec(14, 1)>>)}
    \cup {Vector(d) : d \in SeqsOver(GammaArrVals, 2)}

IsenFlowVals ==
  {Dec(-5, 1), Zero, Dec(1, 1), Dec(5, 1), One, Dec(11, 1), Dec(15, 1), Two,
   Dec(3, 0), Dec(6, 0)}
IsenArrVals == {Zero, One, Two}
IsenFlowInputs ==
  {Scalar(x) : x \in IsenFlowVals}
    \cup {Vector(d) : d \in SeqsOver(IsenArrVals, 1)}
    \cup {Row(d) : d \in SeqsOver(IsenArrVals, 1)}
IsenModes == {"mach", "temp", "pres", "dens", "rho", "sub", "sup", "area"}

ShockFlowVals ==
  {Dec(-5, 1), Dec(3, 1), Dec(5, 1), Dec(8, 1), One, Dec(15, 1), Two, Dec(3, 0), Dec(7, 0)}
ShockArrVals == {Dec(5, 1), One, Dec(3, 0)}
ShockFlowInputs ==
  {Scalar(x) : x \in ShockFlowVals}
    \cup {Vector(d) : d \in SeqsOver(ShockArrVals, 1)}
    \cup {Row(d) : d \in SeqsOver(ShockArrVals, 1)}
ShockModes == {"mach", "down", "pres", "dens", "up"}

AltVals ==
  {Dec(-2000, 0), Zero, Dec(5000, 0), Dec(11000, 0), Dec(15000, 0), Dec(20000, 0),
   Dec(32000, 0), Dec(47000, 0), Dec(51000, 0), Dec(71000, 0), Dec(80000, 0),
   Dec(84852, 0), Dec(90000, 0), Dec(120000, 0)}
AltArrVals == {Zero, Dec(11000, 0), Dec(71000, 0), Dec(90000, 0)}
AltInputs ==
  {Scalar(x) : x \in AltVals} \cup {Vector(d) : d \in SeqsOver(AltArrVals, 1)}
AltModes == {"geop", "geom", "geoid"}

NoResult == [kind |-> "none"]
NoCall == [fn |-> "none"]

Init ==
  /\ pc = "idle"
  /\ call = NoCall
  /\ gamma = <<>> /\ flow = <<>> /\ nshape = <<>> /\ M = <<>>
  /\ i = 0 /\ updates = 0 /\ origin = <<>>
  /\ h = <<>> /\ Tb = Zero /\ Pb = Zero /\ T = <<>> /\ P = <<>>
  /\ result = NoResult
  /\ AETB_iternum = IterNum

\* the call ends at once: it raised, or it returned without a loop
Ends(res) ==
  /\ pc' = "done"
  /\ result' = res
  /\ gamma' = <<>> /\ flow' = <<>> /\ nshape' = <<>> /\ M' = <<>>
  /\ i' = 0

\* lines 92-149 of flowisentropic(gin, fin, mt), up to the loop of line 142
IsenEnter(gin, fin, mt, org) ==
  LET g0 == AsArray(gin)
      f0 == AsArray(fin)
      n == BroadcastShape(g0, f0)
      fl == Broadcast(f0, n)
      ga == Broadcast(g0, n)
      err == IsenDomainError(mt, fl)
  IN /\ call' = [fn |-> "flowisentropic", gamma |-> gin, flow |-> fin, mtype |-> mt]
     /\ origin' = org
     /\ updates' = 0
     /\ UNCHANGED <<h, Tb, Pb, T, P, AETB_iternum>>
     /\ IF AnyOf([k \in DOMAIN g0.data |-> FLe(g0.data[k], One)])
        THEN Ends(Raise(MsgGamma))
        ELSE IF ShapesDiffer(g0, f0) THEN Ends(Raise(MsgShape))
        ELSE IF err # "" THEN Ends(Raise(err))
        ELSE IF mt \in ModeArea
             THEN /\ pc' = "newton"
                  /\ gamma' = ga /\ flow' = fl /\ nshape' = n
                  /\ M' = IsenInitialM(mt, ga, fl)
                  /\ i' = 0
                  /\ result' = NoResult
             ELSE Ends(IsenReturn(n, ga, IsenInitialM(mt, ga, fl)))

FlowisentropicCall ==
  /\ pc = "idle"
  /\ \E gin \in GammaInputs, fin \in IsenFlowInputs, mt \in IsenModes :
       IsenEnter(gin, fin, mt, <<>>)

\* variant: the loop also stops once an update changes nothing
LoopContinues_UntilConverged(k) ==
  /\ k < AETB_iternum
  /\ \E n \in DOMAIN M : NewtonUpdate(gamma[n], flow[n], M[n]) # M[n]
\* line 142: for i in xrange(_AETB_iternum)
LoopContinues(k) == k < AETB_iternum

\* lines 143-146: one pass of the loop, on the whole array
NewtonStep ==
  /\ pc = "newton"
  /\ LoopContinues(i)
  /\ M' = [k \in DOMAIN M |-> NewtonUpdate(gamma[k], flow[k], M[k])]
  /\ i' = i + 1
  /\ updates' = updates + 1
  /\ UNCHANGED <<pc, call, gamma, flow, nshape, origin, h, Tb, Pb, T, P,
                 result, AETB_iternum>>

\* lines 147-190: the loop is over; force the sonic point and return
NewtonReturn ==
  /\ pc = "newton"
  /\ ~LoopContinues(i)
  /\ Ends(IsenReturn(nshape, gamma, ForceSonic(flow, M)))
  /\ UNCHANGED <<call, updates, origin, h, Tb, Pb, T, P, AETB_iternum>>

\* the output of a Mach mode call that is the input of mode mt
IsenField(res, mt) ==
  IF mt \in ModeTemp THEN res.T
  ELSE IF mt \in ModePres THEN res.P
  ELSE IF mt \in ModeDens THEN res.rho
  ELSE res.area

\* the caller feeds an output of flowisentropic(gamma, M, "mach") back in
FlowisentropicInverse ==
  /\ pc = "done"
  /\ call.fn = "flowisentropic" /\ call.mtype \in ModeMach
  /\ result.kind = "return"
  /\ \E mt \in {"temp", "pres", "dens", "sub", "sup"} :
       IsenEnter(call.gamma,
                 [shape |-> result.shape, data |-> IsenField(result, mt)],
                 mt, result.M)

\* lines 197-265 of flownormalshock(gin, fin, mt)
ShockEnter(gin, fin, mt, org) ==
  LET g0 == AsArray(gin)
      f0 == AsArray(fin)
      n == BroadcastShape(g0, f0)
      fl == Broadcast(f0, n)
      ga == Broadcast(g0, n)
      err == ShockDomainError(mt, ga, fl)
  IN /\ call' = [fn |-> "flownormalshock", gamma |-> gin, flow |-> fin, mtype |-> mt]
     /\ origin' = org
     /\ UNCHANGED <<updates, h, Tb, Pb, T, P, AETB_iternum>>
     /\ IF AnyOf([k \in DOMAIN g0.data |-> FLe(g0.data[k], One)])
        THEN Ends(Raise(MsgGamma))
        ELSE IF ShapesDiffer(g0, f0) THEN Ends(Raise(MsgShape))
        ELSE IF err # "" THEN Ends(Raise(err))
        ELSE \/ /\ MaskAssignFails(ShockOnBound(mt, ga, fl))
                /\ Ends([kind |-> "raise", exc |-> "ValueError", msg |-> MsgMask])
             \/ /\ MaskAssignFails(ShockOnBound(mt, ga, fl)) => MaskAssignInOrder(n)
                /\ Ends(ShockReturn(n, ga, ShockAssignedM(mt, ga, fl)))

FlownormalshockCall ==
  /\ pc = "idle"
  /\ \E gin \in GammaInputs, fin \in ShockFlowInputs, mt \in ShockModes :
       ShockEnter(gin, fin, mt, <<>>)

ShockField(res, mt) ==
  IF mt \in ShockDown THEN res.M2
  ELSE IF mt \in ShockPres THEN res.P
  ELSE res.rho

\* the caller feeds an output of flownormalshock(gamma, M, "mach") back in
FlownormalshockInverse ==
  /\ pc = "done"
  /\ call.fn = "flownormalshock" /\ call.mtype \in ShockMach
  /\ result.kind = "return"
  /\ \E mt \in {"down", "pres", "dens"} :
       ShockEnter(call.gamma,
                  [shape |-> result.shape, data |-> ShockField(result, mt)],
                  mt, result.M)

\* lines 298-328 of atmosisa(hin, mt), up to the loop of line 331
AtmosisaCall ==
  /\ pc = "idle"
  /\ \E hin \in AltInputs, mt \in AltModes :
       LET h0 == AsArray(hin)
       IN /\ call' = [fn |-> "atmosisa", h |-> hin, mtype |-> mt]
          /\ UNCHANGED <<gamma, flow, nshape, M, updates, origin, AETB_iternum>>
          /\ i' = 0
          /\ IF mt \notin {"geop", "geom"}
             THEN /\ pc' = "done"
                  /\ result' = Raise(MsgMode)
                  /\ UNCHANGED <<h, Tb, Pb, T, P>>
             ELSE /\ pc' = "layers"
                  /\ result' = NoResult
                  /\ h' = [shape |-> h0.shape,
                           data |-> IF mt = "geom"
                                    THEN [k \in DOMAIN h0.data |-> ToGeopotential(h0.data[k])]
                                    ELSE h0.data]
                  /\ Tb' = T0 /\ Pb' = P0
                  /\ T' = [k \in DOMAIN h0.data |-> T0]
                  /\ P' = [k \in DOMAIN h0.data |-> P0]

\* lines 331-337: the loop goes on while a layer is left and selects an altitude
LayerContinues == i < NumLayers /\ AnyOf(LayerSelect(i, h.data))

\* lines 339-353: layer i is applied to the altitudes above its base
LayerStep ==
  /\ pc = "layers"
  /\ LayerContinues
  /\ LET s == LayerSelect(i, h.data)
     IN /\ T' = [k \in DOMAIN T |-> IF s[k] THEN LayerT(i, Tb, h.data[k]) ELSE T[k]]
        /\ P' = [k \in DOMAIN P |-> IF s[k] THEN LayerP(i, Tb, Pb, h.data[k]) ELSE P[k]]
  /\ Tb' = NextTb(i, Tb)
  /\ Pb' = NextPb(i, Tb, Pb)
  /\ i' = i + 1
  /\ UNCHANGED <<pc, call, gamma, flow, nshape, M, updates, origin, h, result,
                 AETB_iternum>>

\* lines 355-360
AtmosisaReturn ==
  /\ pc = "layers"
  /\ ~LayerContinues
  /\ pc' = "done"
  /\ result' = AtmosReturn(h.shape, T, P)
  /\ UNCHANGED <<call, gamma, flow, nshape, M, i, updates, origin, h, Tb, Pb, T, P,
                 AETB_iternum>>

\* the caller drops the outcome: nothing of a call outlives it
Discard ==
  /\ pc = "done"
  /\ pc' = "idle"
  /\ call' = NoCall
  /\ result' = NoResult
  /\ updates' = 0 /\ origin' = <<>> /\ i' = 0
  /\ h' = <<>> /\ Tb' = Zero /\ Pb' = Zero /\ T' = <<>> /\ P' = <<>>
  /\ UNCHANGED <<gamma, flow, nshape, M, AETB_iternum>>

Next ==
  \/ FlowisentropicCall
  \/ NewtonStep
  \/ NewtonReturn
  \/ FlowisentropicInverse
  \/ FlownormalshockCall
  \/ FlownormalshockInverse
  \/ AtmosisaCall
  \/ LayerStep
  \/ AtmosisaReturn
  \/ Discard

Spec == Init /\ [][Next]_vars

(***************************************************************************)
(* The claims                                                              *)
(***************************************************************************)
\* element k of an input, a single element standing for every k
ElemOf(v, k) == IF Len(v.data) = 1 THEN v.data[1] ELSE v.data[k]
InputSize(c) == IF Len(c.gamma.data) > Len(c.flow.data)
                THEN Len(c.gamma.data) ELSE Len(c.flow.data)
SameShapes(c) ==
  Len(c.gamma.data) = 1 \/ Len(c.flow.data) = 1
    \/ AsArray(c.gamma).shape = AsArray(c.flow).shape
IsFlowCall == call.fn \in {"flowisentropic", "flownormalshock"}

\* an input the domain-validity table rejects
InvalidGamma == IsFlowCall /\ \E k \in DOMAIN call.gamma.data : FLe(call.gamma.data[k], One)
InvalidMode ==
  \/ call.fn = "flowisentropic"
       /\ call.mtype \notin ModeMach \cup ModeTemp \cup ModePres \cup ModeDens \cup ModeArea
  \/ call.fn = "flownormalshock"
       /\ call.mtype \notin ShockMach \cup ShockDown \cup ShockPres \cup ShockDens
  \/ call.fn = "atmosisa" /\ call.mtype \notin {"geop", "geom"}
InvalidIsenFlow ==
  /\ call.fn = "flowisentropic"
  /\ \E k \in DOMAIN call.flow.data :
       LET x == call.flow.data[k]
       IN \/ call.mtype \in ModeMach /\ FLt(x, Zero)
          \/ call.mtype \in ModeTemp \cup ModePres \cup ModeDens
               /\ (FLt(x, Zero) \/ FGt(x, One))
          \/ call.mtype \in ModeArea /\ FLt(x, One)
InvalidShockFlow ==
  /\ call.fn = "flownormalshock"
  /\ ~InvalidGamma /\ SameShapes(call)
  /\ \E k \in 1..InputSize(call) :
       LET x == ElemOf(call.flow, k)
           g == ElemOf(call.gamma, k)
       IN \/ call.mtype \in ShockMach \cup ShockPres /\ FLt(x, One)
          \/ call.mtype \in ShockDown
               /\ (FLt(x, FSqrt(FDiv(FSub(g, One), FMul(Two, g)))) \/ FGt(x, One))
          \/ call.mtype \in ShockDens
               /\ (FLt(x, One) \/ FGt(x, FDiv(FAdd(g, One), FSub(g, One))))
InvalidInput == InvalidGamma \/ InvalidMode \/ InvalidIsenFlow \/ InvalidShockFlow

\* C1: a call of any of the three entry points whose input is invalid (a gamma
\* element <= 1, a flow element outside the range of its mode, an unrecognized
\* mode string) ends in an error: it never enters a loop and never returns a tuple.
C1_InvalidInputRaises ==
  (call.fn # "none" /\ InvalidInput) => (pc = "done" /\ result.kind = "raise")

\* C1's case: a flow out of range under a valid gamma and a known mode was rejected
C1_Witness ==
  /\ pc = "done" /\ result.kind = "raise"
  /\ ~InvalidGamma /\ ~InvalidMode
  /\ InvalidShockFlow /\ call.mtype \in ShockDens
  /\ \E k \in DOMAIN call.flow.data : FGt(call.flow.data[k], One)

\* C2: an invalid gamma or an out-of-range flow fails with an error kind of its
\* own, distinguishable from the kind raised for mismatched shapes and from the
\* kind raised for an unrecognized mode string.
C2_DomainErrorKindDistinct ==
  (pc = "done" /\ result.kind = "raise" /\ ~InvalidMode
     /\ (InvalidGamma \/ InvalidIsenFlow \/ InvalidShockFlow))
  => /\ result.exc # Raise(MsgShape).exc
     /\ result.exc # Raise(MsgMode).exc

\* C3, as stated: flowisentropic in temp mode at a temperature ratio of exactly 0
\* returns M = +inf and area = +inf.
C3_ZeroTemp(k) ==
  /\ pc = "done" /\ call.fn = "flowisentropic" /\ call.mtype \in ModeTemp
  /\ result.kind = "return"
  /\ FEq(ElemOf(call.flow, k), Zero)
C3_Original ==
  call.fn = "flowisentropic" =>
    \A k \in 1..InputSize(call) :
      C3_ZeroTemp(k) => (result.M[k] = PInf /\ result.area[k] = PInf)

\* C3, amended: at a temperature ratio of exactly 0 the call returns M = +inf,
\* T = 0 and area = 0 (the limit the code assigns to an infinite Mach number).
C3_ZeroTempLimit ==
  call.fn = "flowisentropic" =>
    \A k \in 1..InputSize(call) :
      C3_ZeroTemp(k) =>
        (result.M[k] = PInf /\ result.area[k] = Zero /\ result.T[k] = Zero)

C3_Witness ==
  /\ call.fn = "flowisentropic" /\ call.flow.shape = <<>> /\ C3_ZeroTemp(1)
  /\ call.gamma = Scalar(Dec(14, 1))

\* the shape the spec's shape law gives the outputs: that of the non-scalar input
InputShape(c) ==
  IF c.fn = "atmosisa" THEN c.h.shape
  ELSE IF Len(c.gamma.data) > Len(c.flow.data) THEN c.gamma.shape
  ELSE IF Len(c.flow.data) > Len(c.gamma.data) THEN c.flow.shape
  ELSE IF c.flow.shape = <<>> THEN c.gamma.shape
  ELSE c.flow.shape
InputElements(c) ==
  IF c.fn = "atmosisa" THEN Len(c.h.data) ELSE InputSize(c)
Outputs(res) ==
  IF call.fn = "flowisentropic" THEN <<res.M, res.T, res.P, res.rho, res.area>>
  ELSE IF call.fn = "flownormalshock"
       THEN <<res.M, res.M2, res.T, res.P, res.rho, res.P0, res.P1>>
  ELSE <<res.T, res.a, res.P, res.rho>>

\* C4, as stated: every output has the shape of the broadcast input; an array of
\* a single element yields arrays of its shape, only a scalar yields scalars.
C4_Original ==
  (pc = "done" /\ result.kind = "return") => result.shape = InputShape(call)

\* C4, amended: an input of more than one element yields outputs of its shape,
\* each of as many elements; an input of one element, a scalar or an array of
\* a single element, yields scalar outputs.
C4_ShapeLaw ==
  (pc = "done" /\ result.kind = "return") =>
    /\ result.shape = IF InputElements(call) = 1 THEN <<>> ELSE InputShape(call)
    /\ \A j \in DOMAIN Outputs(result) : Len(Outputs(result)[j]) = InputElements(call)

C4_Witness ==
  /\ pc = "done" /\ result.kind = "return"
  /\ call.fn = "flownormalshock"
  /\ call.flow.shape = <<1>> /\ call.gamma.shape = <<>>
  /\ result.shape = <<>>

\* C5: every element of the Mach number flowisentropic returns is >= 0 (or
\* +inf), in every mode; the Newton-Raphson updates of the sub and sup modes
\* never leave a negative Mach number for an area ratio >= 1.
C5_MachNonNegative ==
  (pc = "done" /\ call.fn = "flowisentropic" /\ result.kind = "return")
    => \A k \in DOMAIN result.M :
         IsFinite(ElemOf(call.flow, k)) => FGe(result.M[k], Zero)

\* C6: in sub and sup mode every element whose area ratio is exactly 1 comes
\* back with a Mach number of exactly 1, whatever the iteration reached.
C6_SonicFixedPoint ==
  (pc = "done" /\ call.fn = "flowisentropic" /\ call.mtype \in ModeArea
     /\ result.kind = "return")
    => \A k \in DOMAIN result.M :
         FEq(ElemOf(call.flow, k), One) => result.M[k] = One

\* C6's case: an array with a sonic element beside another one
C6_Witness ==
  /\ pc = "done" /\ call.fn = "flowisentropic" /\ call.mtype = "sub"
  /\ result.kind = "return"
  /\ Len(call.flow.data) = 2
  /\ call.flow.data[1] = Two /\ call.flow.data[2] = One
  /\ result.M[2] = One /\ result.M[1] # One

\* C7: a sub or sup call on valid input runs line 146 exactly IterNum (10)
\* times, never fewer and never more, whatever the iterates are, and then
\* returns; no call changes the iteration count.
C7_ExactlyTenUpdates ==
  /\ AETB_iternum = IterNum
  /\ updates <= IterNum
  /\ pc = "newton" => (updates = i /\ call.mtype \in ModeArea)
  /\ (pc = "done" /\ call.fn = "flowisentropic" /\ result.kind = "return")
       => updates = IF call.mtype \in ModeArea THEN IterNum ELSE 0

\* C7's case: a sub call returned after its ten updates, having diverged
C7_Witness ==
  /\ pc = "done" /\ call.fn = "flowisentropic" /\ call.mtype = "sub"
  /\ result.kind = "return" /\ updates = IterNum
  /\ \E k \in DOMAIN result.M : FLt(result.M[k], Zero)

\* the altitudes above the last tabulated base altitude
AboveTable(k) == FGt(h.data[k], Hb(NumLayers))

\* C8, as stated: above 84.852 km the last layer is isothermal: the temperature
\* returned is the one at 84.852 km, whatever the altitude.
C8_Original ==
  (pc = "done" /\ call.fn = "atmosisa" /\ result.kind = "return")
    => \A k \in DOMAIN result.T : AboveTable(k) => result.T[k] = Tb

\* C8, amended: above 84.852 km the seventh layer goes on with its lapse rate
\* of -2.0 K/km from its base at 71 km (214.65 K): T = 214.65 - 0.002 (h - 71000),
\* which is below the temperature at 84.852 km and keeps falling with altitude.
C8_LastLayerLapses ==
  (pc = "done" /\ call.fn = "atmosisa" /\ result.kind = "return")
    => \A k \in DOMAIN result.T :
         AboveTable(k) =>
           /\ result.T[k] = FSub(Dec(21465, 2),
                                 FMul(Dec(2, 3), FSub(h.data[k], Dec(71000, 0))))
           /\ FLt(result.T[k], Tb)
           /\ \A j \in DOMAIN result.T :
                FLt(h.data[k], h.data[j]) => FLt(result.T[j], result.T[k])

C8_Witness ==
  /\ pc = "done" /\ call.fn = "atmosisa" /\ result.kind = "return"
  /\ call.mtype = "geop"
  /\ Len(h.data) = 1 /\ h.data[1] = Dec(90000, 0)
  /\ result.T[1] = Dec(17665, 2) /\ FLt(result.T[1], Tb)

\* C9: once a layer is processed the running base (Tb, Pb) is what that layer's
\* formula gives at its top: a sample at the boundary Hb[i], which the strict
\* selection leaves to layer i-1, holds exactly the base of layer i, and layer
\* i's own formula gives it the same T and P.
C9_LayerContinuity ==
  (call.fn = "atmosisa" /\ pc \in {"layers", "done"} /\ result.kind # "raise"
     /\ i >= 1)
    => \A k \in DOMAIN h.data :
         h.data[k] = Hb(i) =>
           /\ T[k] = Tb /\ P[k] = Pb
           /\ i < NumLayers =>
                /\ LayerT(i, Tb, h.data[k]) = T[k]
                /\ LayerP(i, Tb, Pb, h.data[k]) = P[k]

\* C9's case: the sample at the 47 km boundary, after four layers
C9_Witness ==
  /\ call.fn = "atmosisa" /\ pc = "layers" /\ i = 4
  /\ \E k \in DOMAIN h.data : h.data[k] = Hb(4) /\ T[k] = Dec(27065, 2)

\* |x - y| <= 10^-3 max(1, |y|)
Close(x, y) ==
  FLe(FAbs(FSub(x, y)),
      FMul(Dec(1, 3), IF FGt(FAbs(y), One) THEN FAbs(y) ELSE One))

\* the Mach numbers of the branch a mode inverts
InBranch(fn, mt, m) ==
  IF fn = "flownormalshock" THEN FGe(m, One) /\ IsFinite(m)
  ELSE IF mt = "sub" THEN FGt(m, Zero) /\ FLe(m, One)
  ELSE IF mt = "sup" THEN FGe(m, One) /\ IsFinite(m)
  ELSE FGe(m, Zero) /\ IsFinite(m)

\* C10: round trip.  Feeding the ratio that (gamma, M) gives back in, in the mode
\* of that ratio, returns a Mach number equal to M within tolerance, for every M
\* of the mode's branch (isentropic temp, pres, dens, sub, sup; shock down,
\* pres, dens).
C10_RoundTrip ==
  (pc = "done" /\ origin # <<>> /\ result.kind = "return")
    => \A k \in DOMAIN origin :
         InBranch(call.fn, call.mtype, origin[k]) => Close(result.M[k], origin[k])

\* the bound of the mode that maps to an infinite upstream Mach number, and the
\* open valid range of the mode, for element k of the broadcast input
OnBoundAt(k) ==
  IF call.mtype \in ShockDown
  THEN FEq(ElemOf(call.flow, k), LowerBound(ElemOf(call.gamma, k)))
  ELSE FEq(ElemOf(call.flow, k), UpperBound(ElemOf(call.gamma, k)))
StrictlyInsideAt(k) ==
  IF call.mtype \in ShockDown
  THEN /\ FGt(ElemOf(call.flow, k), LowerBound(ElemOf(call.gamma, k)))
       /\ FLt(ElemOf(call.flow, k), One)
  ELSE /\ FGt(ElemOf(call.flow, k), One)
       /\ FLt(ElemOf(call.flow, k), UpperBound(ElemOf(call.gamma, k)))
\* the upstream Mach number flownormalshock returns for element k passed alone
AloneM1(k) ==
  ShockInitialM(call.mtype, <<ElemOf(call.gamma, k)>>, <<ElemOf(call.flow, k)>>)[1]
MixedBoundCall ==
  /\ pc = "done" /\ call.fn = "flownormalshock"
  /\ call.mtype \in ShockDown \cup ShockDens
  /\ ~InvalidGamma /\ SameShapes(call)
  /\ InputSize(call) > 1
  /\ \E k \in 1..InputSize(call) : OnBoundAt(k)
  /\ \E k \in 1..InputSize(call) : StrictlyInsideAt(k)
  /\ \A k \in 1..InputSize(call) : OnBoundAt(k) \/ StrictlyInsideAt(k)

\* C11: a 'dens' or 'down' call of flownormalshock on an array of more than one
\* element, some exactly on the bound that maps to infinity and the others
\* strictly inside the valid range, returns, and its upstream Mach number is
\* +infinity at the bound elements and the closed-form value at every other
\* element: each element's M1 is what the element passed alone yields.
C11_ElementwiseBound ==
  MixedBoundCall =>
    /\ result.kind = "return"
    /\ \A k \in 1..InputSize(call) :
         /\ result.M[k] = AloneM1(k)
         /\ OnBoundAt(k) => result.M[k] = PInf

==========================================================================
